---- MODULE Spec2Model ----
(***************************************************************************)
(* Model of JIG-Hettich-9133179.py: a CadQuery script that builds two      *)
(* drilling jigs (step 1, step 2) for a Hettich hinge and exports them.     *)
(*                                                                         *)
(* Lengths: the source's literals are millimetres with at most one         *)
(* decimal, so the constants below are in tenths of a millimetre.  The      *)
(* derived rib dimensions need quarters of a tenth, so every coordinate of  *)
(* a solid is in units of 1/40 mm (U units per tenth).                      *)
(*                                                                         *)
(* A solid is the tree of the CAD operations that built it (a CSG tree);    *)
(* In(p, S) decides whether the point p lies in the solid S, with the exact *)
(* integer arithmetic of boxes, prisms, circles and triangles.              *)
(***************************************************************************)
EXTENDS Integers, Sequences, FiniteSets, TLC

U == 4

T(tenths) == tenths * U

\* ---- module constants, lines 15-30 (tenths of a millimetre) -------------
JIG_PLANE_DEPTH == 1500
JIG_PLANE_THICKNESS == 100

BOARD_THICKNESS == 280
BOARD_WIDTH == 1000
BOARD_LENGTH == 2000

HINGE_DIAMETER == 135
HINGE_LENGTH == 615
HINGE_LENGTH_INNER == 317

HINGE_DEPTH == 65
HINGE_DEPTH_INNER == 185

BIT_CUT_LENGTH == 254

EXTRA_THICKNESS == 100

\* ---- locals of jig(), lines 57-59 and 75-78 ----------------------------
width == 1500
height == 1000
thickness == BOARD_THICKNESS + 100
FILLET_RADIUS == 250

\* in units of 1/40 mm: 0.75 * 150 mm and 0.75 * 112.5 mm are not tenths
rib_width == (T(JIG_PLANE_DEPTH) * 3) \div 4
rib_depth == T(100)
rib_height == (rib_width * 3) \div 4
rib_x_offset == (T(width) \div 2) - (rib_width \div 2)

\* ---- arithmetic helpers -------------------------------------------------
Abs(x) == IF x < 0 THEN -x ELSE x

Min2(a, b) == IF a < b THEN a ELSE b

Max2(a, b) == IF a > b THEN a ELSE b

\* ---- 2D profiles (pending wires) ----------------------------------------
NoProfile == [k |-> "none", n |-> <<>>]

RectProfile(w, h) == [k |-> "rect", n |-> <<w, h>>]

SlotProfile(len, dia) == [k |-> "slot", n |-> <<len, dia>>]

PolyProfile(pts) == [k |-> "poly", n |-> pts]

\* twice the signed area of the triangle (a, b, c), flat point list n
Cross(ax, ay, bx, by, cx, cy) == (bx - ax) * (cy - ay) - (by - ay) * (cx - ax)

InTriangle(u, v, n) ==
    LET d1 == Cross(n[1], n[2], n[3], n[4], u, v)
        d2 == Cross(n[3], n[4], n[5], n[6], u, v)
        d3 == Cross(n[5], n[6], n[1], n[2], u, v)
    IN  ~((d1 < 0 \/ d2 < 0 \/ d3 < 0) /\ (d1 > 0 \/ d2 > 0 \/ d3 > 0))

\* slot2D(length, diameter, 0): end-to-end length along u, end circles of
\* the given diameter, centred on the workplane origin
InSlot(u, v, len, dia) ==
    LET r2 == dia          \* twice the radius
        c2 == len - dia    \* twice the distance of an end-circle centre
    IN  /\ 2 * Abs(v) <= r2
        /\ \/ 2 * Abs(u) <= c2
           \/ (2 * Abs(u) - c2) * (2 * Abs(u) - c2) + 4 * v * v <= r2 * r2

InProfile(u, v, prof) ==
    CASE prof.k = "rect" -> 2 * Abs(u) <= prof.n[1] /\ 2 * Abs(v) <= prof.n[2]
      [] prof.k = "slot" -> InSlot(u, v, prof.n[1], prof.n[2])
      [] prof.k = "poly" -> InTriangle(u, v, prof.n)
      [] OTHER -> FALSE

\* ---- solids as CSG trees ------------------------------------------------
Node(op, pl, kids, prof, n) ==
    [op |-> op, pl |-> pl, kids |-> kids, prof |-> prof, n |-> n]

Empty == Node("empty", "", <<>>, NoProfile, <<>>)

\* outside the rounded corner of a rectangle w by d whose vertical edges
\* were filleted with radius r
OutsideFillet(x, y, w, d, r) ==
    LET ex == 2 * Abs(x) - (w - 2 * r)
        ey == 2 * Abs(y) - (d - 2 * r)
    IN  ex > 0 /\ ey > 0 /\ ex * ex + ey * ey > 4 * r * r

RECURSIVE In(_, _)
In(p, S) ==
    CASE S.op = "box" ->
            \* Workplane("XZ").box(l, w, h, centered=(True, False, True)):
            \* local x = X, local y = Z, local z = -Y
            /\ 2 * Abs(p[1]) <= S.n[1]
            /\ p[3] >= 0 /\ p[3] <= S.n[2]
            /\ 2 * Abs(p[2]) <= S.n[3]
      [] S.op = "prism" ->
            IF S.pl = "YZ"
            THEN InProfile(p[2], p[3], S.prof) /\ S.n[1] <= p[1] /\ p[1] <= S.n[2]
            ELSE InProfile(p[1], p[2], S.prof) /\ S.n[1] <= p[3] /\ p[3] <= S.n[2]
      [] S.op = "translate" ->
            In(<<p[1] - S.n[1], p[2] - S.n[2], p[3] - S.n[3]>>, S.kids[1])
      [] S.op = "union" -> In(p, S.kids[1]) \/ In(p, S.kids[2])
      [] S.op = "cut" -> In(p, S.kids[1]) /\ ~In(p, S.kids[2])
      [] S.op = "fillet" ->
            /\ In(p, S.kids[1])
            /\ ~OutsideFillet(p[1], p[2], S.n[2], S.n[3], S.n[1])
      [] S.op = "cutBlind" ->
            /\ In(p, S.kids[1])
            /\ ~(InProfile(p[1], p[2], S.prof) /\ S.n[1] <= p[3] /\ p[3] <= S.n[2])
      [] S.op = "cutThruAll" ->
            In(p, S.kids[1]) /\ ~InProfile(p[1], p[2], S.prof)
      [] OTHER -> FALSE

\* highest and lowest Z of a solid (what faces(">Z") and faces("<Z") select).
\* A cut never removes a whole top or bottom face in this script: the board
\* (28 mm thick) is narrower than the plate and the wall, the slots narrower
\* than the faces they are cut into.
RECURSIVE ZMax(_)
ZMax(S) ==
    CASE S.op = "box" -> S.n[2]
      [] S.op = "prism" -> IF S.pl = "YZ"
                           THEN Max2(S.prof.n[2], Max2(S.prof.n[4], S.prof.n[6]))
                           ELSE S.n[2]
      [] S.op = "translate" -> ZMax(S.kids[1]) + S.n[3]
      [] S.op = "union" -> Max2(ZMax(S.kids[1]), ZMax(S.kids[2]))
      [] S.op \in {"cut", "fillet", "cutBlind", "cutThruAll"} -> ZMax(S.kids[1])
      [] OTHER -> 0

RECURSIVE ZMin(_)
ZMin(S) ==
    CASE S.op = "box" -> 0
      [] S.op = "prism" -> IF S.pl = "YZ"
                           THEN Min2(S.prof.n[2], Min2(S.prof.n[4], S.prof.n[6]))
                           ELSE S.n[1]
      [] S.op = "translate" -> ZMin(S.kids[1]) + S.n[3]
      [] S.op = "union" -> Min2(ZMin(S.kids[1]), ZMin(S.kids[2]))
      [] S.op \in {"cut", "fillet", "cutBlind", "cutThruAll"} -> ZMin(S.kids[1])
      [] OTHER -> 0

\* ---- cq.Workplane objects -----------------------------------------------
\* id: object identity (every CadQuery call returns a new Workplane);
\* solid: the context solid; plane, oz: the workplane and the height of its
\* origin; sz: the height of the selected stack item; pend, pz: the pending
\* wire and the height it was drawn at.
WP(id, solid, plane, oz, sz, pend, pz) ==
    [id |-> id, solid |-> solid, plane |-> plane, oz |-> oz, sz |-> sz,
     pend |-> pend, pz |-> pz]

NoneWP == WP(0, Empty, "", 0, 0, NoProfile, 0)

Workplane(name, id) == WP(id, Empty, name, 0, 0, NoProfile, 0)

box(wp, l, w, h, id) ==
    WP(id, Node("box", wp.plane, <<>>, NoProfile, <<l, w, h>>),
       wp.plane, wp.oz, wp.oz, NoProfile, 0)

translate(wp, dx, dy, dz, id) ==
    WP(id, Node("translate", "", <<wp.solid>>, NoProfile, <<dx, dy, dz>>),
       wp.plane, wp.oz, wp.oz, wp.pend, wp.pz)

faces(wp, selector, id) ==
    WP(id, wp.solid, wp.plane, wp.oz,
       IF selector = ">Z" THEN ZMax(wp.solid) ELSE ZMin(wp.solid),
       wp.pend, wp.pz)

edges(wp, selector, id) ==
    WP(id, wp.solid, wp.plane, wp.oz, wp.sz, wp.pend, wp.pz)

\* workplane() on a selected horizontal face: origin (0, 0, 0) of the old
\* plane projected onto the face, x direction (1, 0, 0)
workplane(wp, id) == WP(id, wp.solid, "XY", wp.sz, wp.sz, wp.pend, wp.pz)

rect(wp, w, h, id) ==
    WP(id, wp.solid, wp.plane, wp.oz, wp.sz, RectProfile(w, h), wp.sz)

slot2D(wp, len, dia, id) ==
    WP(id, wp.solid, wp.plane, wp.oz, wp.sz, SlotProfile(len, dia), wp.sz)

polyline(wp, pts, id) ==
    WP(id, wp.solid, wp.plane, wp.oz, wp.sz, [k |-> "polyline", n |-> pts], wp.sz)

close(wp, id) ==
    WP(id, wp.solid, wp.plane, wp.oz, wp.sz,
       IF wp.pend.k = "polyline" THEN PolyProfile(wp.pend.n) ELSE wp.pend, wp.pz)

\* extrude(d): a prism of the pending wire, d along the plane's normal,
\* combined with the context solid when there is one
extrude(wp, d, id) ==
    LET prism == Node("prism", wp.plane, <<>>, wp.pend,
                      <<Min2(wp.pz, wp.pz + d), Max2(wp.pz, wp.pz + d)>>)
    IN  WP(id,
           IF wp.solid = Empty THEN prism
           ELSE Node("union", "", <<wp.solid, prism>>, NoProfile, <<>>),
           wp.plane, wp.oz, wp.sz, NoProfile, 0)

\* fillet(r) of the selected vertical edges of the rectangular plate
fillet(wp, r, id) ==
    WP(id, Node("fillet", "", <<wp.solid>>, NoProfile,
                <<r, wp.solid.prof.n[1], wp.solid.prof.n[2]>>),
       wp.plane, wp.oz, wp.sz, wp.pend, wp.pz)

union(wp, other, id) ==
    WP(id, Node("union", "", <<wp.solid, other.solid>>, NoProfile, <<>>),
       wp.plane, wp.oz, wp.sz, wp.pend, wp.pz)

\* the operands of the subtraction exchanged
cutSwapped(wp, other, id) ==
    WP(id, Node("cut", "", <<other.solid, wp.solid>>, NoProfile, <<>>),
       wp.plane, wp.oz, wp.sz, wp.pend, wp.pz)

cut(wp, other, id) ==
    WP(id, Node("cut", "", <<wp.solid, other.solid>>, NoProfile, <<>>),
       wp.plane, wp.oz, wp.sz, wp.pend, wp.pz)

cutBlind(wp, d, id) ==
    WP(id, Node("cutBlind", "", <<wp.solid>>, wp.pend,
                <<Min2(wp.pz, wp.pz + d), Max2(wp.pz, wp.pz + d)>>),
       wp.plane, wp.oz, wp.sz, NoProfile, 0)

cutThruAll(wp, id) ==
    WP(id, Node("cutThruAll", "", <<wp.solid>>, wp.pend, <<>>),
       wp.plane, wp.oz, wp.sz, NoProfile, 0)

\* ---- cq.Assembly objects ------------------------------------------------
NoneAsm == [id |-> 0, loc |-> <<0, 0>>, children |-> <<>>]

Assembly(x, y, id) == [id |-> id, loc |-> <<x, y>>, children |-> <<>>]

\* Assembly.add changes the assembly in place and returns it
add(a, obj, name, color) ==
    [a EXCEPT !.children =
        Append(@, [name |-> name, obj |-> obj, color |-> color])]

\* ---- state --------------------------------------------------------------
VARIABLES
    pc,                     \* the call that runs next
    failed,                 \* an exception was raised: the run is over
    nextId,                 \* identity of the next object created
    cur, arg, asm,          \* value of the expression being evaluated
    board_step1, board_step2, patched,
    TOP_THICKNESS_STEP_1, TOP_THICKNESS_STEP_2,
    jig_model, jig_model_step2, asm_step1, asm_step2,
    ret, top_thickness, board, jig_base, rib,   \* frame of jig()
    hret, self, length, result,                 \* frame of hinge_top()
    stdout, viewer, files                       \* outside the script

moduleVars == <<board_step1, board_step2, patched, TOP_THICKNESS_STEP_1,
                TOP_THICKNESS_STEP_2, jig_model, jig_model_step2,
                asm_step1, asm_step2>>

jigFrame == <<ret, top_thickness, board, jig_base, rib>>

hingeFrame == <<hret, self, length, result>>

world == <<stdout, viewer, files>>

vars == <<pc, failed, nextId, cur, arg, asm, moduleVars, jigFrame,
          hingeFrame, world>>

UNBOUND == -1

Init ==
    /\ pc = "L34"
    /\ failed = FALSE
    /\ nextId = 1
    /\ cur = NoneWP /\ arg = NoneWP /\ asm = NoneAsm
    /\ board_step1 = NoneWP /\ board_step2 = NoneWP
    /\ patched = FALSE
    /\ TOP_THICKNESS_STEP_1 = UNBOUND /\ TOP_THICKNESS_STEP_2 = UNBOUND
    /\ jig_model = NoneWP /\ jig_model_step2 = NoneWP
    /\ asm_step1 = NoneAsm /\ asm_step2 = NoneAsm
    /\ ret = 0 /\ top_thickness = UNBOUND /\ board = NoneWP
    /\ jig_base = NoneWP /\ rib = NoneWP
    /\ hret = 0 /\ self = NoneWP /\ length = UNBOUND /\ result = NoneWP
    /\ stdout = <<>> /\ viewer = <<>> /\ files = <<>>

\* one step of the interpreter from location l to location m that creates
\* one object
Step(l, m) ==
    /\ pc = l /\ ~failed
    /\ pc' = m
    /\ nextId' = nextId + 1
    /\ UNCHANGED failed

\* a step inside a method chain: only the expression value changes
Chain(l, m, v) ==
    /\ Step(l, m)
    /\ cur' = v
    /\ UNCHANGED <<arg, asm, moduleVars, jigFrame, hingeFrame, world>>

\* ---- lines 33-37: board_step1 ------------------------------------------
L34_Workplane == Chain("L34", "L35", Workplane("XZ", nextId))

L35_box ==
    Chain("L35", "L36",
          box(cur, T(BOARD_LENGTH), T(BOARD_WIDTH), T(BOARD_THICKNESS), nextId))

L36_translate ==
    /\ Step("L36", "L41")
    /\ board_step1' = translate(cur, 0, 0, -T(BOARD_WIDTH), nextId)
    /\ cur' = NoneWP
    /\ UNCHANGED <<arg, asm, board_step2, patched, TOP_THICKNESS_STEP_1,
                   TOP_THICKNESS_STEP_2, jig_model, jig_model_step2,
                   asm_step1, asm_step2, jigFrame, hingeFrame, world>>

\* ---- lines 40-45: board_step2 ------------------------------------------
L41_faces == Chain("L41", "L42", faces(board_step1, ">Z", nextId))

L42_workplane == Chain("L42", "L43", workplane(cur, nextId))

L43_slot2D ==
    Chain("L43", "L44", slot2D(cur, T(HINGE_LENGTH), T(HINGE_DIAMETER), nextId))

\* cutBlind changing the board it is applied to
L44_cutBlindInPlace ==
    /\ Step("L44", "L110")
    /\ board_step2' = cutBlind(cur, -T(HINGE_DEPTH), nextId)
    /\ board_step1' = [board_step1 EXCEPT !.solid = board_step2'.solid]
    /\ cur' = NoneWP
    /\ UNCHANGED <<arg, asm, patched, TOP_THICKNESS_STEP_1,
                   TOP_THICKNESS_STEP_2, jig_model, jig_model_step2,
                   asm_step1, asm_step2, jigFrame, hingeFrame, world>>

L44_cutBlind ==
    /\ Step("L44", "L110")
    /\ board_step2' = cutBlind(cur, -T(HINGE_DEPTH), nextId)
    /\ cur' = NoneWP
    /\ UNCHANGED <<arg, asm, board_step1, patched, TOP_THICKNESS_STEP_1,
                   TOP_THICKNESS_STEP_2, jig_model, jig_model_step2,
                   asm_step1, asm_step2, jigFrame, hingeFrame, world>>

\* ---- line 110: cq.Workplane.hinge_top = hinge_top ----------------------
L110_patch ==
    /\ pc = "L110" /\ ~failed
    /\ pc' = "L114"
    /\ patched' = TRUE
    /\ UNCHANGED <<failed, nextId, cur, arg, asm, board_step1, board_step2,
                   TOP_THICKNESS_STEP_1, TOP_THICKNESS_STEP_2, jig_model,
                   jig_model_step2, asm_step1, asm_step2, jigFrame,
                   hingeFrame, world>>

\* ---- lines 114 and 124-126 ---------------------------------------------
\* line 114 also printing its value, as line 127 does for step 2
L114_top_print ==
    /\ pc = "L114" /\ ~failed
    /\ pc' = "L115"
    /\ TOP_THICKNESS_STEP_1' = BIT_CUT_LENGTH - HINGE_DEPTH + EXTRA_THICKNESS
    /\ stdout' = Append(stdout,
                        <<"Top thickness for step 1", TOP_THICKNESS_STEP_1'>>)
    /\ UNCHANGED <<failed, nextId, cur, arg, asm, board_step1, board_step2,
                   patched, TOP_THICKNESS_STEP_2, jig_model, jig_model_step2,
                   asm_step1, asm_step2, jigFrame, hingeFrame, viewer, files>>

L114_top ==
    /\ pc = "L114" /\ ~failed
    /\ pc' = "L115"
    /\ TOP_THICKNESS_STEP_1' = BIT_CUT_LENGTH - HINGE_DEPTH + EXTRA_THICKNESS
    /\ UNCHANGED <<failed, nextId, cur, arg, asm, board_step1, board_step2,
                   patched, TOP_THICKNESS_STEP_2, jig_model, jig_model_step2,
                   asm_step1, asm_step2, jigFrame, hingeFrame, world>>

\* line 125 with the depth of step 1
L124_top_depth ==
    /\ pc = "L124" /\ ~failed
    /\ pc' = "L127"
    /\ TOP_THICKNESS_STEP_2' = BIT_CUT_LENGTH - HINGE_DEPTH + EXTRA_THICKNESS
    /\ UNCHANGED <<failed, nextId, cur, arg, asm, board_step1, board_step2,
                   patched, TOP_THICKNESS_STEP_1, jig_model, jig_model_step2,
                   asm_step1, asm_step2, jigFrame, hingeFrame, world>>

L124_top ==
    /\ pc = "L124" /\ ~failed
    /\ pc' = "L127"
    /\ TOP_THICKNESS_STEP_2' =
           BIT_CUT_LENGTH - HINGE_DEPTH_INNER + EXTRA_THICKNESS
    /\ UNCHANGED <<failed, nextId, cur, arg, asm, board_step1, board_step2,
                   patched, TOP_THICKNESS_STEP_1, jig_model, jig_model_step2,
                   asm_step1, asm_step2, jigFrame, hingeFrame, world>>

\* ---- line 127: print ----------------------------------------------------
L127_print ==
    /\ pc = "L127" /\ ~failed
    /\ pc' = "L128"
    /\ stdout' = Append(stdout,
                        <<"Top thickness for step 2", TOP_THICKNESS_STEP_2>>)
    /\ UNCHANGED <<failed, nextId, cur, arg, asm, moduleVars, jigFrame,
                   hingeFrame, viewer, files>>

\* ---- lines 115 and 128: the calls of jig() ------------------------------
CallSite(v) == IF v = 1 THEN "L115" ELSE "L128"

L115_call(v) ==
    /\ pc = CallSite(v) /\ ~failed
    /\ pc' = "L63"
    /\ ret' = v
    /\ top_thickness' =
           IF v = 1 THEN TOP_THICKNESS_STEP_1 ELSE TOP_THICKNESS_STEP_2
    /\ board' = IF v = 1 THEN board_step1 ELSE board_step2
    /\ jig_base' = NoneWP /\ rib' = NoneWP
    /\ UNCHANGED <<failed, nextId, cur, arg, asm, moduleVars, hingeFrame,
                   world>>

\* ---- lines 62-72 of jig(): the base plate and the wall -------------------
L63_Workplane == Chain("L63", "L64", Workplane("XY", nextId))

L64_rect == Chain("L64", "L65", rect(cur, T(width), T(JIG_PLANE_DEPTH), nextId))

L65_extrude == Chain("L65", "L66", extrude(cur, -T(JIG_PLANE_THICKNESS), nextId))

L66_edges == Chain("L66", "L67", edges(cur, "|Z", nextId))

L67_fillet == Chain("L67", "L68", fillet(cur, T(FILLET_RADIUS), nextId))

L68_faces == Chain("L68", "L69", faces(cur, "<Z", nextId))

L69_rect == Chain("L69", "L70", rect(cur, T(width), T(thickness), nextId))

L70_extrude == Chain("L70", "L71", extrude(cur, -T(height), nextId))

L71_translate ==
    /\ Step("L71", "L81")
    /\ jig_base' = translate(cur, 0, 0, T(top_thickness), nextId)
    /\ cur' = NoneWP
    /\ UNCHANGED <<arg, asm, moduleVars, ret, top_thickness, board, rib,
                   hingeFrame, world>>

\* ---- lines 80-85 of jig(): the rib --------------------------------------
L81_Workplane == Chain("L81", "L82", Workplane("YZ", nextId))

L82_polyline ==
    Chain("L82", "L83",
          polyline(cur, <<-(rib_width \div 2), 0, rib_width \div 2, 0,
                          0, -rib_height>>, nextId))

L83_close == Chain("L83", "L84", close(cur, nextId))

L84_extrude ==
    /\ Step("L84", "L87t")
    /\ rib' = extrude(cur, -rib_depth, nextId)
    /\ cur' = NoneWP
    /\ UNCHANGED <<arg, asm, moduleVars, ret, top_thickness, board, jig_base,
                   hingeFrame, world>>

\* ---- lines 87-88 of jig(): both ribs unioned ----------------------------
RibOffset(l) == IF l = "L87" THEN rib_x_offset ELSE -rib_x_offset

AfterUnion(l) == IF l = "L87" THEN "L88t" ELSE "L89"

L87_translate(l) ==
    /\ Step(l \o "t", l \o "u")
    /\ arg' = translate(rib, RibOffset(l), 0, T(top_thickness), nextId)
    /\ UNCHANGED <<cur, asm, moduleVars, jigFrame, hingeFrame, world>>

L87_union(l) ==
    /\ Step(l \o "u", AfterUnion(l))
    /\ jig_base' = union(jig_base, arg, nextId)
    /\ arg' = NoneWP
    /\ UNCHANGED <<cur, asm, moduleVars, ret, top_thickness, board, rib,
                   hingeFrame, world>>

\* line 89 left out
L89_skip ==
    /\ Step("L89", "L91")
    /\ UNCHANGED <<cur, arg, asm, moduleVars, jigFrame, hingeFrame, world>>

\* ---- line 89 of jig(): the board subtracted -----------------------------
L89_cut ==
    /\ Step("L89", "L91")
    /\ jig_base' = cut(jig_base, board, nextId)
    /\ UNCHANGED <<cur, arg, asm, moduleVars, ret, top_thickness, board, rib,
                   hingeFrame, world>>

\* ---- line 91: return jig_base, assigned at line 115 or 128 --------------
L91_return ==
    /\ pc = "L91" /\ ~failed
    /\ pc' = IF ret = 1 THEN "L116f" ELSE "L129f"
    /\ jig_model' = IF ret = 1 THEN jig_base ELSE jig_model
    /\ jig_model_step2' = IF ret = 1 THEN jig_model_step2 ELSE jig_base
    /\ ret' = 0 /\ top_thickness' = UNBOUND /\ board' = NoneWP
    /\ jig_base' = NoneWP /\ rib' = NoneWP
    /\ UNCHANGED <<failed, nextId, cur, arg, asm, board_step1, board_step2,
                   patched, TOP_THICKNESS_STEP_1, TOP_THICKNESS_STEP_2,
                   asm_step1, asm_step2, hingeFrame, world>>

\* ---- lines 116 and 129: faces(">Z").workplane().hinge_top(...) ----------
SlotLine(v) == IF v = 1 THEN "L116" ELSE "L129"

JigOf(v) == IF v = 1 THEN jig_model ELSE jig_model_step2

L116_faces(v) ==
    Chain(SlotLine(v) \o "f", SlotLine(v) \o "w", faces(JigOf(v), ">Z", nextId))

L116_workplane(v) ==
    Chain(SlotLine(v) \o "w", SlotLine(v) \o "h", workplane(cur, nextId))

\* line 129 passing HINGE_LENGTH as line 116 does
L116_call_outer(v) ==
    /\ pc = SlotLine(v) \o "h" /\ ~failed
    /\ patched
    /\ pc' = "L106s"
    /\ hret' = v
    /\ self' = cur
    /\ length' = HINGE_LENGTH
    /\ result' = NoneWP
    /\ cur' = NoneWP
    /\ UNCHANGED <<failed, nextId, arg, asm, moduleVars, jigFrame, world>>

L116_call(v) ==
    /\ pc = SlotLine(v) \o "h" /\ ~failed
    /\ patched
    /\ pc' = "L106s"
    /\ hret' = v
    /\ self' = cur
    /\ length' = IF v = 1 THEN HINGE_LENGTH ELSE HINGE_LENGTH_INNER
    /\ result' = NoneWP
    /\ cur' = NoneWP
    /\ UNCHANGED <<failed, nextId, arg, asm, moduleVars, jigFrame, world>>

\* ---- lines 94-107: hinge_top(self, length) ------------------------------
L106_slot2D ==
    Chain("L106s", "L106c", slot2D(self, T(length), T(HINGE_DIAMETER), nextId))

L106_cutThruAll ==
    /\ Step("L106c", "L107")
    /\ result' = cutThruAll(cur, nextId)
    /\ cur' = NoneWP
    /\ UNCHANGED <<arg, asm, moduleVars, jigFrame, hret, self, length, world>>

\* each jig exported as soon as its slot is cut
L107_return_export ==
    /\ pc = "L107" /\ ~failed
    /\ pc' = IF hret = 1 THEN "L119" ELSE "L132"
    /\ jig_model' = IF hret = 1 THEN result ELSE jig_model
    /\ jig_model_step2' = IF hret = 1 THEN jig_model_step2 ELSE result
    /\ hret' = 0 /\ self' = NoneWP /\ length' = UNBOUND /\ result' = NoneWP
    /\ files' = Append(files, [name |-> "jig-Hettich-9133179.stl",
                               format |-> "stl", obj |-> result])
    /\ UNCHANGED <<failed, nextId, cur, arg, asm, board_step1, board_step2,
                   patched, TOP_THICKNESS_STEP_1, TOP_THICKNESS_STEP_2,
                   asm_step1, asm_step2, jigFrame, stdout, viewer>>

L107_return ==
    /\ pc = "L107" /\ ~failed
    /\ pc' = IF hret = 1 THEN "L119" ELSE "L132"
    /\ jig_model' = IF hret = 1 THEN result ELSE jig_model
    /\ jig_model_step2' = IF hret = 1 THEN jig_model_step2 ELSE result
    /\ hret' = 0 /\ self' = NoneWP /\ length' = UNBOUND /\ result' = NoneWP
    /\ UNCHANGED <<failed, nextId, cur, arg, asm, board_step1, board_step2,
                   patched, TOP_THICKNESS_STEP_1, TOP_THICKNESS_STEP_2,
                   asm_step1, asm_step2, jigFrame, world>>

\* ---- lines 118-122 and 131-135: the preview assemblies ------------------
AsmLine(v) == IF v = 1 THEN "L119" ELSE "L132"

AddJigLine(v) == IF v = 1 THEN "L120" ELSE "L133"

AddBoardLine(v) == IF v = 1 THEN "L121" ELSE "L134"

AfterAsm(v) == IF v = 1 THEN "L124" ELSE "L137"

BoardOf(v) == IF v = 1 THEN board_step1 ELSE board_step2

L119_Assembly(v) ==
    /\ Step(AsmLine(v), AddJigLine(v))
    /\ asm' = IF v = 1 THEN Assembly(0, 0, nextId)
              ELSE Assembly(0, T(JIG_PLANE_DEPTH + 200), nextId)
    /\ UNCHANGED <<cur, arg, moduleVars, jigFrame, hingeFrame, world>>

L120_add(v) ==
    /\ pc = AddJigLine(v) /\ ~failed
    /\ pc' = AddBoardLine(v)
    /\ asm' = add(asm, JigOf(v), "Jig", "")
    /\ UNCHANGED <<failed, nextId, cur, arg, moduleVars, jigFrame, hingeFrame,
                   world>>

L121_add(v) ==
    /\ pc = AddBoardLine(v) /\ ~failed
    /\ pc' = AfterAsm(v)
    /\ asm_step1' = IF v = 1 THEN add(asm, BoardOf(v), "Board", "burlywood1")
                    ELSE asm_step1
    /\ asm_step2' = IF v = 1 THEN asm_step2
                    ELSE add(asm, BoardOf(v), "Board", "burlywood1")
    /\ asm' = NoneAsm
    /\ UNCHANGED <<failed, nextId, cur, arg, board_step1, board_step2, patched,
                   TOP_THICKNESS_STEP_1, TOP_THICKNESS_STEP_2, jig_model,
                   jig_model_step2, jigFrame, hingeFrame, world>>

\* ---- lines 137-138: show_object -----------------------------------------
ShowLine(v) == IF v = 1 THEN "L137" ELSE "L138"

L137_show_object(v) ==
    /\ pc = ShowLine(v) /\ ~failed
    /\ pc' = IF v = 1 THEN "L138" ELSE "L141"
    /\ viewer' = Append(viewer,
                        [name |-> IF v = 1 THEN "Step 1" ELSE "Step 2",
                         obj |-> IF v = 1 THEN asm_step1 ELSE asm_step2])
    /\ UNCHANGED <<failed, nextId, cur, arg, asm, moduleVars, jigFrame,
                   hingeFrame, stdout, files>>

\* ---- lines 141-144: exporters.export ------------------------------------
ExportLine == <<"L141", "L142", "L143", "L144", "done">>

ExportName ==
    <<"jig-Hettich-9133179.stl", "jig-Hettich-9133179.step",
      "jig-Hettich-9133179_step2.stl", "jig-Hettich-9133179_step2.step">>

ExportFormat == <<"stl", "step", "stl", "step">>

\* every export line passing the step-1 jig
ExportArgSame(k) == jig_model

ExportArg(k) == IF k \in {1, 2} THEN jig_model ELSE jig_model_step2

L141_export(k) ==
    /\ pc = ExportLine[k] /\ ~failed
    /\ pc' = ExportLine[k + 1]
    /\ files' = Append(files, [name |-> ExportName[k],
                               format |-> ExportFormat[k],
                               obj |-> ExportArg(k)])
    /\ UNCHANGED <<failed, nextId, cur, arg, asm, moduleVars, jigFrame,
                   hingeFrame, stdout, viewer>>

\* ---- an exception in a library call: no handler, the run ends -----------
LibraryCalls ==
    {"L34", "L35", "L36", "L41", "L42", "L43", "L44",
     "L63", "L64", "L65", "L66", "L67", "L68", "L69", "L70", "L71",
     "L81", "L82", "L83", "L84", "L87t", "L87u", "L88t", "L88u", "L89",
     "L116f", "L116w", "L129f", "L129w", "L106s", "L106c",
     "L119", "L120", "L121", "L132", "L133", "L134",
     "L137", "L138", "L141", "L142", "L143", "L144"}

Raise ==
    /\ pc \in LibraryCalls /\ ~failed
    /\ failed' = TRUE
    /\ UNCHANGED <<pc, nextId, cur, arg, asm, moduleVars, jigFrame,
                   hingeFrame, world>>

\* ---- the script ---------------------------------------------------------
JigSteps ==
    \/ L63_Workplane \/ L64_rect \/ L65_extrude \/ L66_edges \/ L67_fillet
    \/ L68_faces \/ L69_rect \/ L70_extrude \/ L71_translate
    \/ L81_Workplane \/ L82_polyline \/ L83_close \/ L84_extrude
    \/ \E l \in {"L87", "L88"} : L87_translate(l) \/ L87_union(l)
    \/ L89_cut \/ L91_return

SlotSteps ==
    \/ \E v \in {1, 2} : L116_faces(v) \/ L116_workplane(v) \/ L116_call(v)
    \/ L106_slot2D \/ L106_cutThruAll \/ L107_return

Next ==
    \/ L34_Workplane \/ L35_box \/ L36_translate
    \/ L41_faces \/ L42_workplane \/ L43_slot2D \/ L44_cutBlind
    \/ L110_patch \/ L114_top \/ L124_top \/ L127_print
    \/ \E v \in {1, 2} : L115_call(v)
    \/ JigSteps
    \/ SlotSteps
    \/ \E v \in {1, 2} : L119_Assembly(v) \/ L120_add(v) \/ L121_add(v)
    \/ \E v \in {1, 2} : L137_show_object(v)
    \/ \E k \in 1..4 : L141_export(k)
    \/ Raise

Spec == Init /\ [][Next]_vars

\* ---- the sample points of space ------------------------------------------
\* Every axis is cut at the coordinates where a face, an arc centre or an
\* edge of some solid of the run lies; GridN points are taken strictly
\* inside each interval between neighbouring cuts.
GridN == 1

Mirror(h) == {0} \cup h \cup {-x : x \in h}

XCuts ==
    Mirror({T(BOARD_LENGTH) \div 2, T(width) \div 2,
            T(HINGE_LENGTH) \div 2, T(HINGE_LENGTH - HINGE_DIAMETER) \div 2,
            T(HINGE_LENGTH_INNER) \div 2,
            T(HINGE_LENGTH_INNER - HINGE_DIAMETER) \div 2,
            rib_x_offset, rib_x_offset - rib_depth})

YCuts ==
    Mirror({T(HINGE_DIAMETER) \div 2, T(BOARD_THICKNESS) \div 2,
            T(thickness) \div 2, rib_width \div 2, T(JIG_PLANE_DEPTH) \div 2})

TopCuts(top) ==
    {T(top), T(top - JIG_PLANE_THICKNESS),
     T(top - JIG_PLANE_THICKNESS - height), T(top) - rib_height}

ZCuts ==
    {0, -T(HINGE_DEPTH), -T(BOARD_WIDTH), -T(BOARD_WIDTH) - T(100)}
    \cup TopCuts(BIT_CUT_LENGTH - HINGE_DEPTH + EXTRA_THICKNESS)
    \cup TopCuts(BIT_CUT_LENGTH - HINGE_DEPTH_INNER + EXTRA_THICKNESS)

Samples(cuts) ==
    UNION {LET above == {c \in cuts : c > b}
           IN  IF above = {} THEN {}
               ELSE LET nb == CHOOSE c \in above : \A d \in above : c <= d
                    IN  {b + (k * (nb - b)) \div (GridN + 1) : k \in 1..GridN}
           : b \in cuts}

Lattice == Samples(XCuts) \X Samples(YCuts) \X Samples(ZCuts)

Disjoint(A, B) == \A p \in Lattice : ~(In(p, B) /\ In(p, A))

\* ---- jig() and hinge_top() as functions of their arguments ---------------
\* The run from the call of jig() at line 115 or 128 to the return of
\* hinge_top(), started with any top thickness and any board of the shapes
\* lines 33-45 build.
TopInputs ==
    {BIT_CUT_LENGTH - HINGE_DEPTH + EXTRA_THICKNESS,
     BIT_CUT_LENGTH - HINGE_DEPTH_INNER + EXTRA_THICKNESS,
     JIG_PLANE_THICKNESS, JIG_PLANE_THICKNESS \div 2}

ThicknessInputs == {BOARD_THICKNESS, thickness + 20}

DepthInputs == {HINGE_DEPTH, HINGE_DEPTH_INNER}

BoardInput(t, id) ==
    translate(box(Workplane("XZ", id), T(BOARD_LENGTH), T(BOARD_WIDTH), T(t), id),
              0, 0, -T(BOARD_WIDTH), id)

SlottedInput(b, d, id) ==
    cutBlind(slot2D(workplane(faces(b, ">Z", id), id),
                    T(HINGE_LENGTH), T(HINGE_DIAMETER), id), -T(d), id)

InitJig ==
    \E v \in {1, 2}, top \in TopInputs, t \in ThicknessInputs, d \in DepthInputs :
        /\ pc = CallSite(v)
        /\ failed = FALSE
        /\ nextId = 8
        /\ cur = NoneWP /\ arg = NoneWP /\ asm = NoneAsm
        /\ board_step1 = BoardInput(t, 3)
        /\ board_step2 = SlottedInput(BoardInput(t, 3), d, 7)
        /\ patched = TRUE
        /\ TOP_THICKNESS_STEP_1 =
               IF v = 1 THEN top
               ELSE BIT_CUT_LENGTH - HINGE_DEPTH + EXTRA_THICKNESS
        /\ TOP_THICKNESS_STEP_2 = IF v = 1 THEN UNBOUND ELSE top
        /\ jig_model = NoneWP /\ jig_model_step2 = NoneWP
        /\ asm_step1 = NoneAsm /\ asm_step2 = NoneAsm
        /\ ret = 0 /\ top_thickness = UNBOUND /\ board = NoneWP
        /\ jig_base = NoneWP /\ rib = NoneWP
        /\ hret = 0 /\ self = NoneWP /\ length = UNBOUND /\ result = NoneWP
        /\ stdout = <<>> /\ viewer = <<>> /\ files = <<>>

NextJig ==
    \/ \E v \in {1, 2} : L115_call(v)
    \/ JigSteps
    \/ SlotSteps

SpecJig == InitJig /\ [][NextJig]_vars

\* ---- shapes of the solids the script builds ------------------------------
\* jig_base as line 62-72 leaves it: the filleted plate and the wall, moved up
IsBase(S) ==
    /\ S.op = "translate"
    /\ S.kids[1].op = "union"
    /\ S.kids[1].kids[1].op = "fillet"
    /\ S.kids[1].kids[1].kids[1].op = "prism"
    /\ S.kids[1].kids[2].op = "prism"

IsRib(S) ==
    /\ S.op = "translate"
    /\ S.kids[1].op = "prism" /\ S.kids[1].pl = "YZ"

\* base with both ribs unioned
IsRibbed(S) ==
    /\ S.op = "union" /\ IsRib(S.kids[2])
    /\ S.kids[1].op = "union" /\ IsRib(S.kids[1].kids[2])
    /\ S.kids[1].kids[2] # S.kids[2]
    /\ IsBase(S.kids[1].kids[1])

\* ribbed base with the board b subtracted
IsFitted(S, b) == S.op = "cut" /\ S.kids[2] = b /\ IsRibbed(S.kids[1])

\* fitted jig with the through-slot cut
IsSlotted(S, b) ==
    S.op = "cutThruAll" /\ S.prof.k = "slot" /\ IsFitted(S.kids[1], b)

IsPlainBoard(S) == S.op = "translate" /\ S.kids[1].op = "box"

IsSlottedBoard(S) == S.op = "cutBlind" /\ IsPlainBoard(S.kids[1])

\* ---- C1 ------------------------------------------------------------------
\* C1: a run that reaches its end has written exactly four files, an .stl and
\* a .step of the step-1 jig and an .stl and a .step of the step-2 jig; the
\* two files of a variant export the same solid, and no file of one variant
\* exports the other variant's solid.
C1_FourFiles ==
    pc = "done" =>
        /\ Len(files) = 4
        /\ <<files[1].name, files[2].name, files[3].name, files[4].name>> =
               <<"jig-Hettich-9133179.stl", "jig-Hettich-9133179.step",
                 "jig-Hettich-9133179_step2.stl",
                 "jig-Hettich-9133179_step2.step">>
        /\ <<files[1].format, files[2].format, files[3].format,
             files[4].format>> = <<"stl", "step", "stl", "step">>
        /\ files[1].obj = jig_model /\ files[2].obj = jig_model
        /\ files[3].obj = jig_model_step2 /\ files[4].obj = jig_model_step2
        /\ jig_model.solid.kids[1].kids[2] = board_step1.solid
        /\ jig_model_step2.solid.kids[1].kids[2] = board_step2.solid
        /\ \A i \in {1, 2}, j \in {3, 4} :
               /\ files[i].obj.id # files[j].obj.id
               /\ files[i].obj.solid # files[j].obj.solid

C1_Witness ==
    /\ pc = "done" /\ ~failed /\ Len(files) = 4
    /\ jig_model # NoneWP /\ jig_model_step2 # NoneWP

\* ---- C2 ------------------------------------------------------------------
\* C2: every solid passed to exporters.export was built in the order base
\* plate and wall, both ribs unioned, board subtracted, through-slot cut; no
\* solid that lacks one of these operations is exported.
C2_ExportedComplete ==
    \A i \in 1..Len(files) :
        IsSlotted(files[i].obj.solid,
                  IF i <= 2 THEN board_step1.solid ELSE board_step2.solid)

C2_Witness ==
    /\ Len(files) = 4
    /\ IsSlotted(files[1].obj.solid, board_step1.solid)
    /\ IsSlotted(files[4].obj.solid, board_step2.solid)

\* ---- C3 ------------------------------------------------------------------
\* C3: the solid jig() returns shares no volume with the board it was given,
\* for every top thickness and board, and neither does the jig after the
\* through-slot is cut, each against its own board.
C3_NoSharedVolume ==
    /\ pc = "L91" => Disjoint(jig_base.solid, board.solid)
    /\ jig_model # NoneWP => Disjoint(jig_model.solid, board_step1.solid)
    /\ jig_model_step2 # NoneWP =>
           Disjoint(jig_model_step2.solid, board_step2.solid)

\* the slotted step-2 jig, whose ribs and whose wall both overlapped the board
\* before the subtraction
C3_Witness ==
    /\ pc = "L132"
    /\ IsSlotted(jig_model_step2.solid, board_step2.solid)
    /\ LET ribbed == jig_model_step2.solid.kids[1].kids[1]
       IN  /\ \E p \in Lattice : In(p, board_step2.solid) /\ In(p, ribbed.kids[2])
           /\ \E p \in Lattice :
                  In(p, board_step2.solid) /\ In(p, ribbed.kids[1].kids[1])
    /\ \E p \in Lattice : In(p, jig_model_step2.solid)

\* ---- C4 ------------------------------------------------------------------
\* C4: every call of hinge_top returns the workplane with a through-slot of
\* HINGE_LENGTH by HINGE_DIAMETER, as its docstring states.
C4_SlotSizedToHinge ==
    pc = "L107" =>
        /\ result.solid.op = "cutThruAll"
        /\ result.solid.prof = SlotProfile(T(HINGE_LENGTH), T(HINGE_DIAMETER))

\* ---- C5 ------------------------------------------------------------------
ObjVars ==
    <<cur, arg, board_step1, board_step2, jig_model, jig_model_step2,
      board, jig_base, rib, self, result>>

\* C5: a solid is never changed after it is built: an object keeps its value
\* as long as any variable holds it, board_step1 stays without a slot once
\* board_step2 is derived from it, jig() leaves its board unchanged, the
\* through-slot yields a new object; the step-1 jig is fitted to, and
\* previewed with, the unslotted board.
C5_SolidsImmutable ==
    [][ /\ \A i \in 1..Len(ObjVars), j \in 1..Len(ObjVars) :
               (ObjVars[i].id # 0 /\ ObjVars'[j].id = ObjVars[i].id)
                   => ObjVars'[j] = ObjVars[i]
        /\ board_step1 # NoneWP =>
               /\ board_step1' = board_step1
               /\ IsPlainBoard(board_step1'.solid)
        /\ board_step2 # NoneWP => board_step2' = board_step2
        /\ board # NoneWP =>
               /\ board' \in {board, NoneWP}
               /\ board \in {board_step1, board_step2}
        /\ (pc = "L106c" /\ pc' = "L107") =>
               /\ result'.id \notin {self.id, jig_model.id, jig_model_step2.id}
               /\ self' = self
        /\ jig_model' # NoneWP =>
               jig_model'.solid.op \in {"cut", "cutThruAll"}
               /\ (IF jig_model'.solid.op = "cut" THEN jig_model'.solid
                   ELSE jig_model'.solid.kids[1]).kids[2] = board_step1'.solid
        /\ asm_step1' # NoneAsm =>
               /\ asm_step1'.children[2].obj = board_step1'
               /\ IsPlainBoard(asm_step1'.children[2].obj.solid)
      ]_vars

C5_Witness ==
    /\ pc = "L137"
    /\ IsPlainBoard(board_step1.solid)
    /\ IsSlottedBoard(board_step2.solid)
    /\ board_step2.solid.kids[1] = board_step1.solid
    /\ IsSlotted(jig_model.solid, board_step1.solid)
    /\ asm_step1.children[2].obj = board_step1

\* ---- C6 ------------------------------------------------------------------
\* C6 as claimed: nothing outside the script's own variables changes except
\* by the export calls (no other output, no global object modified).
C6_OnlyExports ==
    [][stdout' = stdout /\ viewer' = viewer /\ patched' = patched]_vars

\* C6 as amended: outside its own variables the script changes exactly this:
\* line 110 sets hinge_top on the library class cq.Workplane, line 127 prints
\* one line, lines 137-138 send two previews to the viewer and lines 141-144
\* write the four files; files change only by export calls.
C6_SideEffects ==
    [][ /\ files' # files =>
               /\ pc \in {"L141", "L142", "L143", "L144"}
               /\ Len(files') = Len(files) + 1
        /\ stdout' # stdout => pc = "L127" /\ Len(stdout') = 1
        /\ viewer' # viewer =>
               /\ pc \in {"L137", "L138"}
               /\ Len(viewer') = Len(viewer) + 1
        /\ patched' # patched => pc = "L110" /\ patched'
        /\ Len(viewer') <= 2 /\ Len(files') <= 4
      ]_vars

C6_Witness ==
    /\ pc = "done" /\ patched
    /\ Len(stdout) = 1 /\ Len(viewer) = 2 /\ Len(files) = 4

\* ---- C8 ------------------------------------------------------------------
FilesAtFailure ==
    IF pc \in {"L141", "L142", "L143", "L144"}
    THEN LET k == CHOOSE i \in 1..4 : ExportLine[i] = pc
         IN  /\ Len(files) = k - 1
             /\ \A i \in 1..(k - 1) : files[i].name = ExportName[i]
    ELSE files = <<>>

\* C8: after a failed library call no later step runs; a failure before the
\* exports leaves no file, a failure in the k-th export leaves exactly the
\* first k-1 files.
C8_NoRecovery == [][~failed /\ (failed' => FilesAtFailure')]_vars

C8_Witness == failed /\ pc = "L143" /\ Len(files) = 2

\* ---- C9 ------------------------------------------------------------------
\* C9: top thickness plus the depth cut in that step is BIT_CUT_LENGTH + 10 mm
\* (289 = 254 - 65 + 100 and 169 = 254 - 185 + 100 tenths); both exceed
\* JIG_PLANE_THICKNESS, so the plate, from top_thickness - JIG_PLANE_THICKNESS
\* up to top_thickness, lies wholly above the board's top face at height 0.
C9_TopThickness ==
    /\ TOP_THICKNESS_STEP_1 # UNBOUND =>
           /\ TOP_THICKNESS_STEP_1 = 289
           /\ TOP_THICKNESS_STEP_1 + HINGE_DEPTH = BIT_CUT_LENGTH + 100
           /\ TOP_THICKNESS_STEP_1 > JIG_PLANE_THICKNESS
    /\ TOP_THICKNESS_STEP_2 # UNBOUND =>
           /\ TOP_THICKNESS_STEP_2 = 169
           /\ TOP_THICKNESS_STEP_2 + HINGE_DEPTH_INNER = BIT_CUT_LENGTH + 100
           /\ TOP_THICKNESS_STEP_2 > JIG_PLANE_THICKNESS
    /\ pc = "L81" =>
           LET plate == Node("translate", "", <<jig_base.solid.kids[1].kids[1]>>,
                             NoProfile, jig_base.solid.n)
           IN  /\ top_thickness =
                      IF ret = 1 THEN TOP_THICKNESS_STEP_1
                      ELSE TOP_THICKNESS_STEP_2
               /\ ZMax(plate) = T(top_thickness)
               /\ ZMin(plate) = T(top_thickness - JIG_PLANE_THICKNESS)
               /\ ZMin(plate) > ZMax(board.solid)
               /\ ZMax(board.solid) = 0
               /\ \A p \in Lattice : In(p, plate) => p[3] > 0

C9_Witness ==
    /\ pc = "L81" /\ ret = 2 /\ top_thickness = 169
    /\ IsBase(jig_base.solid)
    /\ \E p \in Lattice : In(p, jig_base.solid) /\ p[3] > T(69)

\* ---- C10 -----------------------------------------------------------------
\* the hinge slot of the step-2 board: in board_step1, not in board_step2
InBoardSlot(p) == In(p, board_step1.solid) /\ ~In(p, board_step2.solid)

InFootprint(p) ==
    2 * Abs(p[1]) <= T(BOARD_LENGTH) /\ 2 * Abs(p[2]) <= T(BOARD_THICKNESS)

====
